---- MODULE Spec2Model ----
(***************************************************************************)
(* Bus ticket booking backend: the booking store (backend/database.py),    *)
(* the REST booking endpoints and the session query router query_smart     *)
(* (backend/main.py).                                                      *)
(*                                                                         *)
(* Texts (query, phone, booking id) are sequences of one-character         *)
(* strings, so that strip(), lower(), startswith(), slicing, substring     *)
(* search and the f-string formatting of ids act on characters.  The       *)
(* literal parts of a reply are single tokens (longer strings).  Python's  *)
(* None is the one-token text None.                                        *)
(***************************************************************************)
EXTENDS Integers, Sequences, FiniteSets, TLC

VARIABLES
    sessions,        \* main.py:98   session_id -> session dict
    bookings,        \* database.py  rows of table bookings, oldest first
    deleted_bookings,\* database.py  rows of table deleted_bookings
    chat_inserted,   \* database.py  rows the last call INSERTed into chat_history
    answer_call,     \* rag_pipeline.get_answer: the query the last call passed to it, or None
    response,        \* the HTTP response of the last call
    request_received,\* main.py:61-64 the QueryRequest of the last call, when it was a query
    raised,          \* the collaborator call that raised during the last call, or "none"
    calls,           \* main.py:227 the calls of query_smart in flight: position and locals
    overlapped       \* history: two calls on one session have been in flight at once

vars == <<sessions, bookings, deleted_bookings, chat_inserted, answer_call, response,
         request_received, raised, calls, overlapped>>

(***************************************************************************)
(* Bounds of the model.                                                    *)
(***************************************************************************)
MaxBookings == 2      \* rows a behaviour keeps in table bookings
MaxDeleted == 1       \* rows a behaviour archives in deleted_bookings
MaxUuids == 1         \* session ids the server generates
MaxSessions == 2      \* sessions of SpecSessions
MaxStoreRows == 3     \* rows SpecStore keeps in table bookings
MaxStoreDeleted == 2  \* rows SpecStore archives in deleted_bookings
MaxRaceCalls == 2     \* calls of query_smart made in SpecRace

(***************************************************************************)
(* Python values and str methods.                                          *)
(***************************************************************************)
None == <<"None">>

\* bool(v) of an Optional[str]
Truthy(v) == v # None /\ v # <<>>

\* a or b
Or(a, b) == IF Truthy(a) THEN a ELSE b

Min(S) == CHOOSE x \in S : \A y \in S : x <= y

RECURSIVE LStrip(_)
LStrip(s) == IF s # <<>> /\ s[1] = " " THEN LStrip(Tail(s)) ELSE s

RECURSIVE RStrip(_)
RStrip(s) == IF s # <<>> /\ s[Len(s)] = " " THEN RStrip(SubSeq(s, 1, Len(s) - 1)) ELSE s

\* str.strip(): leading and trailing whitespace removed
Strip(s) == RStrip(LStrip(s))

Range(s) == {s[i] : i \in 1..Len(s)}

UpperCase == <<"A", "B", "C", "D", "E", "F", "G", "H", "I", "J", "K", "L", "M",
               "N", "O", "P", "Q", "R", "S", "T", "U", "V", "W", "X", "Y", "Z">>
LowerCase == <<"a", "b", "c", "d", "e", "f", "g", "h", "i", "j", "k", "l", "m",
               "n", "o", "p", "q", "r", "s", "t", "u", "v", "w", "x", "y", "z">>

LowerOf == [c \in Range(UpperCase) |->
                LowerCase[CHOOSE i \in 1..Len(UpperCase) : UpperCase[i] = c]]

LowerChar(c) == IF c \in DOMAIN LowerOf THEN LowerOf[c] ELSE c

\* str.lower()
Lower(s) == [i \in 1..Len(s) |-> LowerChar(s[i])]

\* s.startswith(p)
StartsWith(s, p) == Len(s) >= Len(p) /\ SubSeq(s, 1, Len(p)) = p

\* sub in s
Contains(s, sub) ==
    \E i \in 1..(Len(s) - Len(sub) + 1) : SubSeq(s, i, i + Len(sub) - 1) = sub

\* s[n:]
DropFirst(s, n) == SubSeq(s, n + 1, Len(s))

\* number of occurrences of sub in s
Occurrences(s, sub) ==
    Cardinality({i \in 1..(Len(s) - Len(sub) + 1) : SubSeq(s, i, i + Len(sub) - 1) = sub})

Plus88 == <<"+", "8", "8">>

DigitChars == <<"0", "1", "2", "3", "4", "5", "6", "7", "8", "9">>

RECURSIVE Digits(_)
\* str(n) of a natural number
Digits(n) ==
    IF n < 10 THEN <<DigitChars[n + 1]>>
    ELSE Digits(n \div 10) \o <<DigitChars[(n % 10) + 1]>>

\* format spec 0{w}d: zero-padded on the left to at least w characters
ZeroPad(s, w) == IF Len(s) >= w THEN s ELSE [i \in 1..(w - Len(s)) |-> "0"] \o s

Reverse(s) == [i \in 1..Len(s) |-> s[Len(s) + 1 - i]]

(***************************************************************************)
(* data.json as loaded into bus_data (main.py:30-32): a sample data set.   *)
(***************************************************************************)
Dhaka == <<"D", "h", "a", "k", "a">>
Bogra == <<"B", "o", "g", "r", "a">>
Gabtoli == <<"G", "a", "b", "t", "o", "l", "i">>
Satmatha == <<"S", "a", "t", "m", "a", "t", "h", "a">>
Ena == <<"E", "n", "a">>
Hanif == <<"H", "a", "n", "i", "f">>

bus_data ==
    [districts |->
        << [name |-> Dhaka, dropping_points |-> <<[name |-> Gabtoli, price |-> 100]>>],
           [name |-> Bogra, dropping_points |-> <<[name |-> Satmatha, price |-> 450]>>] >>,
     bus_providers |->
        << [name |-> Ena, coverage_districts |-> <<Dhaka, Bogra>>],
           [name |-> Hanif, coverage_districts |-> <<Dhaka>>] >>]

(***************************************************************************)
(* Helper functions of main.py.                                            *)
(***************************************************************************)
\* main.py:68-74
get_fare(district, dropping_point) ==
    LET hits == {h \in UNION {{<<i, j>> : j \in 1..Len(bus_data.districts[i].dropping_points)} :
                                i \in 1..Len(bus_data.districts)} :
                    /\ Lower(bus_data.districts[h[1]].name) = Lower(district)
                    /\ Lower(bus_data.districts[h[1]].dropping_points[h[2]].name)
                           = Lower(dropping_point)}
    IN  IF hits = {} THEN 0
        ELSE LET h == CHOOSE x \in hits :
                        \A y \in hits : x[1] < y[1] \/ (x[1] = y[1] /\ x[2] <= y[2])
             IN  bus_data.districts[h[1]].dropping_points[h[2]].price

\* main.py:76-81
validate_route(provider, from_district, to_district) ==
    LET hits == {i \in 1..Len(bus_data.bus_providers) :
                    Lower(bus_data.bus_providers[i].name) = Lower(provider)}
    IN  IF hits = {} THEN FALSE
        ELSE LET p == bus_data.bus_providers[Min(hits)]
                 coverage_lower == {Lower(d) : d \in Range(p.coverage_districts)}
             IN  Lower(from_district) \in coverage_lower
                 /\ Lower(to_district) \in coverage_lower

(***************************************************************************)
(* Booking store: backend/database.py.                                     *)
(***************************************************************************)
Now == <<"now">>          \* datetime.now().isoformat()

IsActive(b) == b.status = "active"

\* database.py:117-126  SELECT ... WHERE phone = ? ORDER BY created_at DESC
get_bookings_by_phone(phone) ==
    Reverse(SelectSeq(bookings, LAMBDA b : b.phone = phone))

\* database.py:128-137, 145-148  the rows fetchone() can return: none or one
get_booking_by_id(rows, booking_id) ==
    SelectSeq(rows, LAMBDA b : b.booking_id = booking_id)

\* cancel_booking with the UPDATE never committed
cancel_booking_NotCommitted(rows, booking_id) == rows

\* database.py:167-182  the table after the UPDATE
cancel_booking(rows, booking_id) ==
    [i \in 1..Len(rows) |->
        IF rows[i].booking_id = booking_id /\ rows[i].status = "active"
        THEN [rows[i] EXCEPT !.status = "cancelled", !.cancelled_date = Now]
        ELSE rows[i]]

\* cancel_booking_result counting the rows of any status
cancel_booking_result_AnyStatus(rows, booking_id) ==
    \E i \in 1..Len(rows) : rows[i].booking_id = booking_id

\* database.py:178-182  rows_affected > 0
cancel_booking_result(rows, booking_id) ==
    \E i \in 1..Len(rows) : rows[i].booking_id = booking_id /\ rows[i].status = "active"

IdWidth == 5

\* database.py:184-193  f"BK{count + 1:05d}"
generate_booking_id(rows) == <<"B", "K">> \o ZeroPad(Digits(Len(rows) + 1), IdWidth)

\* database.py:25  booking_id TEXT UNIQUE
UniqueViolation(rows, booking_id) ==
    \E i \in 1..Len(rows) : rows[i].booking_id = booking_id

\* database.py:75-104  the table after the INSERT
create_booking(rows, booking_data) ==
    Append(rows, [booking_data EXCEPT !.status = "active"])

\* database.py:139-165  the table after the DELETE
delete_booking_permanently(rows, booking_id) ==
    SelectSeq(rows, LAMBDA b : b.booking_id # booking_id)

\* deleted_row archiving the booking as a cancelled one
deleted_row_Cancelled(booking) ==
    [booking_id |-> booking.booking_id,
     booking_data |-> [booking EXCEPT !.status = "cancelled"],
     deleted_by_phone |-> booking.phone]

\* database.py:153-157  the row INSERTed into deleted_bookings
deleted_row(booking) ==
    [booking_id |-> booking.booking_id, booking_data |-> booking,
     deleted_by_phone |-> booking.phone]

\* chat_row saving the message without its surrounding whitespace
chat_row_Stripped(session_id, role, message, phone) ==
    [session_id |-> session_id, role |-> role, message |-> Strip(message), phone |-> phone]

\* database.py:197-208  a row INSERTed into chat_history
chat_row(session_id, role, message, phone) ==
    [session_id |-> session_id, role |-> role, message |-> message, phone |-> phone]

(***************************************************************************)
(* The session query router: main.py:226-327.                              *)
(***************************************************************************)
\* NewSession with the phone flag already set
NewSession_AwaitingPhone ==
    [awaiting_booking_id |-> FALSE, awaiting_phone_for_cancel |-> TRUE,
     pending_bookings |-> <<>>, phone |-> None]

\* main.py:230-235
NewSession ==
    [awaiting_booking_id |-> FALSE, awaiting_phone_for_cancel |-> FALSE,
     pending_bookings |-> <<>>, phone |-> None]

Cancel == <<"c", "a", "n", "c", "e", "l">>
Cancellation == <<"c", "a", "n", "c", "e", "l", "l", "a", "t", "i", "o", "n">>

\* main.py:253, 304
MsgNoActive(phone) == <<"No active bookings found for phone number ">> \o phone

\* main.py:260, 280, 311
MsgCancelled(booking_id) ==
    <<"Booking ">> \o booking_id \o <<" has been cancelled successfully.">>

\* main.py:268, 319  one line of the list
BookingLine(b) ==
    b.from_district \o <<" -> ">> \o b.to_district \o <<" on ">> \o b.travel_date
        \o <<" (ID: ">> \o b.booking_id \o <<")\n">>

\* BookingLines with the loop left after its first round
BookingLines_FirstOnly(bs) ==
    IF bs = <<>> THEN <<>> ELSE BookingLine(Head(bs))

RECURSIVE BookingLines(_)
BookingLines(bs) ==
    IF bs = <<>> THEN <<>> ELSE BookingLine(Head(bs)) \o BookingLines(Tail(bs))

\* main.py:266-269, 317-320
MsgMultiple(active_bookings) ==
    <<"You have multiple active bookings:\n">> \o BookingLines(active_bookings)
        \o <<"\nPlease provide the Booking ID you want to cancel.">>

\* main.py:284
MsgNotFound(booking_id) ==
    <<"Booking ID ">> \o booking_id \o <<" not found. Please check again.">>

\* main.py:292
MsgAskPhone == <<"To cancel your booking, please provide your phone number.">>

\* What one branch of query_smart does: the session dict it leaves, the id it
\* passes to cancel_booking (or None), the reply, the phone it logs with the
\* reply and the query it passes to get_answer (or None).
Outcome(session, cancel, message, log_phone, answer_query) ==
    [session |-> session, cancel |-> cancel, message |-> message,
     log_phone |-> log_phone, answer_query |-> answer_query]

\* StripCountryCode with the prefix left in place
StripCountryCode_Kept(phone) == phone

\* StripCountryCode removing the plus sign only
StripCountryCode_PlusOnly(phone) ==
    IF StartsWith(phone, Plus88) THEN DropFirst(phone, 1) ELSE phone

\* main.py:245-246, 296-297  if phone.startswith("+88"): phone = phone[3:]
StripCountryCode(phone) ==
    IF StartsWith(phone, Plus88) THEN DropFirst(phone, 3) ELSE phone

\* ActiveBookingsOf without the status filter
ActiveBookingsOf_AnyStatus(phone) == get_bookings_by_phone(phone)

\* frontend/app.py:63-69
normalize_phone(phone) ==
    IF ~Truthy(phone) THEN <<>> ELSE StripCountryCode(Strip(phone))

\* main.py:249-250, 300-301
ActiveBookingsOf(phone) == SelectSeq(get_bookings_by_phone(phone), IsActive)

\* PhoneReceived without line 248
PhoneReceived_FlagKept(session, phone) == [session EXCEPT !.phone = phone]

\* main.py:247-248
PhoneReceived(session, phone) ==
    [session EXCEPT !.phone = phone, !.awaiting_phone_for_cancel = FALSE]

\* main.py:264-265, 315-316
AwaitBookingId(session, active_bookings) ==
    [session EXCEPT !.awaiting_booking_id = TRUE, !.pending_bookings = active_bookings]

\* main.py:243-271  if session.get("awaiting_phone_for_cancel")
PhoneBranch(session, query_text) ==
    LET phone == StripCountryCode(query_text)
        s1 == PhoneReceived(session, phone)
        active_bookings == ActiveBookingsOf(phone)
    IN  IF active_bookings = <<>>
        THEN Outcome(s1, None, MsgNoActive(phone), phone, None)
        ELSE IF Len(active_bookings) = 1
        THEN Outcome(s1, active_bookings[1].booking_id,
                     MsgCancelled(active_bookings[1].booking_id), phone, None)
        ELSE Outcome(AwaitBookingId(s1, active_bookings), None,
                     MsgMultiple(active_bookings), phone, None)

\* SameBookingId comparing case-insensitively
SameBookingId_IgnoreCase(b, booking_id) == Lower(b.booking_id) = Lower(booking_id)

\* main.py:275  b["booking_id"] == booking_id
SameBookingId(b, booking_id) == b.booking_id = booking_id

\* BookingChosen without line 278
BookingChosen_StillAwaiting(session) == [session EXCEPT !.pending_bookings = <<>>]

\* BookingChosen without line 279
BookingChosen_PendingKept(session) == [session EXCEPT !.awaiting_booking_id = FALSE]

\* main.py:278-279
BookingChosen(session) ==
    [session EXCEPT !.awaiting_booking_id = FALSE, !.pending_bookings = <<>>]

\* main.py:273-286  if session["awaiting_booking_id"]
BookingIdBranch(session, query_text) ==
    LET booking_id == query_text
        hits == {i \in 1..Len(session.pending_bookings) :
                    SameBookingId(session.pending_bookings[i], booking_id)}
    IN  IF hits # {}
        THEN Outcome(BookingChosen(session), booking_id, MsgCancelled(booking_id),
                     session.phone, None)
        ELSE Outcome(session, None, MsgNotFound(booking_id), session.phone, None)

\* AskForPhone without line 291
AskForPhone_FlagNotSet(session) == Outcome(session, None, MsgAskPhone, None, None)

\* main.py:290-294
AskForPhone(session) ==
    Outcome([session EXCEPT !.awaiting_phone_for_cancel = TRUE],
            None, MsgAskPhone, None, None)

\* CancelBranch taking the stored phone before the phone of the request
CancelBranch_StoredFirst(session, request_phone) ==
    LET phone0 == Strip(Or(session.phone, Or(request_phone, <<>>)))
        phone == StripCountryCode(phone0)
        s1 == [session EXCEPT !.phone = phone]
        active_bookings == ActiveBookingsOf(phone)
    IN  IF phone0 = <<>>
        THEN AskForPhone(session)
        ELSE IF active_bookings = <<>>
        THEN Outcome(s1, None, MsgNoActive(phone), phone, None)
        ELSE IF Len(active_bookings) = 1
        THEN Outcome(s1, active_bookings[1].booking_id,
                     MsgCancelled(active_bookings[1].booking_id), phone, None)
        ELSE Outcome(AwaitBookingId(s1, active_bookings), None,
                     MsgMultiple(active_bookings), phone, None)

\* main.py:288-322  if any(k in query_lower for k in ["cancel", "cancellation"])
CancelBranch(session, request_phone) ==
    LET phone0 == Strip(Or(request_phone, Or(session.phone, <<>>)))
        phone == StripCountryCode(phone0)
        s1 == [session EXCEPT !.phone = phone]
        active_bookings == ActiveBookingsOf(phone)
    IN  IF phone0 = <<>>
        THEN AskForPhone(session)
        ELSE IF active_bookings = <<>>
        THEN Outcome(s1, None, MsgNoActive(phone), phone, None)
        ELSE IF Len(active_bookings) = 1
        THEN Outcome(s1, active_bookings[1].booking_id,
                     MsgCancelled(active_bookings[1].booking_id), phone, None)
        ELSE Outcome(AwaitBookingId(s1, active_bookings), None,
                     MsgMultiple(active_bookings), phone, None)

\* main.py:324-327  answer = get_answer(request.query)
DefaultBranch(session, query, answer) ==
    Outcome(session, None, answer, session.phone, query)

\* main.py:288
HasCancelKeyword(query_lower) ==
    Contains(query_lower, Cancel) \/ Contains(query_lower, Cancellation)

\* Route with the keyword test moved in front of the two flag tests
Route_KeywordFirst(session, query, request_phone, answer) ==
    LET query_text == Strip(query)
        query_lower == Lower(query_text)
    IN  IF HasCancelKeyword(query_lower) THEN CancelBranch(session, request_phone)
        ELSE IF session.awaiting_phone_for_cancel THEN PhoneBranch(session, query_text)
        ELSE IF session.awaiting_booking_id THEN BookingIdBranch(session, query_text)
        ELSE DefaultBranch(session, query, answer)

\* main.py:237-327  the branch taken, first match wins
Route(session, query, request_phone, answer) ==
    LET query_text == Strip(query)
        query_lower == Lower(query_text)
    IN  IF session.awaiting_phone_for_cancel THEN PhoneBranch(session, query_text)
        ELSE IF session.awaiting_booking_id THEN BookingIdBranch(session, query_text)
        ELSE IF HasCancelKeyword(query_lower) THEN CancelBranch(session, request_phone)
        ELSE DefaultBranch(session, query, answer)

\* main.py:226-327  POST /query/smart
query_smart(request, uuid, answer) ==
    LET session_id == Or(request.session_id, uuid)
        known == IF session_id \in DOMAIN sessions THEN sessions
                 ELSE sessions @@ (session_id :> NewSession)
        out == Route(known[session_id], request.query, request.phone, answer)
    IN  /\ sessions' = [known EXCEPT ![session_id] = out.session]
        /\ bookings' = IF out.cancel = None THEN bookings
                       ELSE cancel_booking(bookings, out.cancel)
        /\ chat_inserted' =
              << chat_row(session_id, "user", request.query, request.phone),
                 chat_row(session_id, "assistant", out.message, out.log_phone) >>
        /\ answer_call' = out.answer_query
        /\ response' = [op |-> "query_smart", status |-> 200,
                        message |-> out.message, session_id |-> session_id]
        /\ request_received' = request
        /\ raised' = "none"
        /\ UNCHANGED <<deleted_bookings, calls, overlapped>>

\* What query_smart has done when a collaborator call raises: the session dict as
\* written so far, the id whose cancellation is committed (or None), the call
\* that raised and the query passed to get_answer (or None).
Partial(session, cancel, call, answer_query) ==
    [session |-> session, cancel |-> cancel, raised |-> call,
     answer_query |-> answer_query]

\* main.py:249, 259, 254/261/270  the calls of the phone branch that can raise
PhoneBranchFailures(session, query_text) ==
    LET phone == StripCountryCode(query_text)
        s1 == PhoneReceived(session, phone)
        full == PhoneBranch(session, query_text)
    IN  {Partial(s1, None, "get_bookings_by_phone", None)}
            \cup (IF full.cancel # None
                  THEN {Partial(s1, None, "cancel_booking", None)} ELSE {})
            \cup {Partial(full.session, full.cancel, "save_chat_message assistant", None)}

\* main.py:277, 281/285  the calls of the booking-id branch that can raise
BookingIdBranchFailures(session, query_text) ==
    LET full == BookingIdBranch(session, query_text)
    IN  (IF full.cancel # None
         THEN {Partial(session, None, "cancel_booking", None)} ELSE {})
            \cup {Partial(full.session, full.cancel, "save_chat_message assistant", None)}

\* main.py:293, 300, 310, 305/312/321  the calls of the keyword branch that can raise
CancelBranchFailures(session, request_phone) ==
    LET phone0 == Strip(Or(request_phone, Or(session.phone, <<>>)))
        s1 == [session EXCEPT !.phone = StripCountryCode(phone0)]
        full == CancelBranch(session, request_phone)
    IN  IF phone0 = <<>>
        THEN {Partial(full.session, None, "save_chat_message assistant", None)}
        ELSE {Partial(s1, None, "get_bookings_by_phone", None)}
                \cup (IF full.cancel # None
                      THEN {Partial(s1, None, "cancel_booking", None)} ELSE {})
                \cup {Partial(full.session, full.cancel, "save_chat_message assistant", None)}

\* main.py:325, 326  the calls of the default branch that can raise
DefaultBranchFailures(session, query) ==
    {Partial(session, None, "get_answer", query),
     Partial(session, None, "save_chat_message assistant", query)}

\* main.py:240-327  every point at which a collaborator call can raise
RouteFailures(session, query, request_phone) ==
    LET query_text == Strip(query)
        query_lower == Lower(query_text)
    IN  {Partial(session, None, "save_chat_message user", None)}
            \cup (IF session.awaiting_phone_for_cancel
                  THEN PhoneBranchFailures(session, query_text)
                  ELSE IF session.awaiting_booking_id
                  THEN BookingIdBranchFailures(session, query_text)
                  ELSE IF HasCancelKeyword(query_lower)
                  THEN CancelBranchFailures(session, request_phone)
                  ELSE DefaultBranchFailures(session, query))

\* FailureResponse with the exception turned into a reply
FailureResponse_GenericReply ==
    [op |-> "query_smart", status |-> 200,
     message |-> <<"Sorry, something went wrong.">>, session_id |-> None]

\* main.py:226-327  no except clause: the exception leaves the handler and the
\* framework answers 500 Internal Server Error without message or session id
FailureResponse ==
    [op |-> "query_smart", status |-> 500, message |-> None, session_id |-> None]

\* the collaborator calls of query_smart
CollaboratorCalls ==
    {"save_chat_message user", "get_bookings_by_phone", "cancel_booking", "get_answer",
     "save_chat_message assistant"}

\* main.py:226-327  POST /query/smart when its collaborator call `call` raises
query_smart_fails(request, uuid, call) ==
    LET session_id == Or(request.session_id, uuid)
        known == IF session_id \in DOMAIN sessions THEN sessions
                 ELSE sessions @@ (session_id :> NewSession)
    IN  \E failure \in RouteFailures(known[session_id], request.query, request.phone) :
            /\ failure.raised = call
            /\ sessions' = [known EXCEPT ![session_id] = failure.session]
            /\ bookings' = IF failure.cancel = None THEN bookings
                           ELSE cancel_booking(bookings, failure.cancel)
            /\ chat_inserted' =
                  IF call = "save_chat_message user" THEN <<>>
                  ELSE <<chat_row(session_id, "user", request.query, request.phone)>>
            /\ answer_call' = failure.answer_query
            /\ response' = FailureResponse
            /\ request_received' = request
            /\ raised' = call
            /\ UNCHANGED <<deleted_bookings, calls, overlapped>>

(***************************************************************************)
(* Booking management endpoints: main.py:165-222.                          *)
(***************************************************************************)
Reply(op, status, message) ==
    [op |-> op, status |-> status, message |-> message, session_id |-> None]

\* the value of request_received after a call that is not a query
NoQueryRequest == [query |-> None, phone |-> None, session_id |-> None]

\* main.py:227  a call of query_smart not made yet, and one that has returned
IdleCall ==
    [pc |-> "idle", request |-> NoQueryRequest, phone |-> None, active_bookings |-> <<>>]

DoneCall == [IdleCall EXCEPT !.pc = "done"]

\* main.py:36-44  the Field constraints of BookingCreate
ValidBookingCreate(booking) ==
    /\ Len(booking.name) >= 2 /\ Len(booking.name) <= 100
    /\ Len(booking.phone) >= 11 /\ Len(booking.phone) <= 15
    /\ booking.num_passengers >= 1 /\ booking.num_passengers <= 10

\* main.py:175-189
new_booking_data(booking, fare) ==
    [booking_id |-> generate_booking_id(bookings),
     name |-> booking.name,
     phone |-> Strip(booking.phone),
     bus_provider |-> booking.bus_provider,
     from_district |-> booking.from_district,
     to_district |-> booking.to_district,
     dropping_point |-> booking.dropping_point,
     travel_date |-> booking.travel_date,
     num_passengers |-> booking.num_passengers,
     fare |-> fare,
     total_amount |-> fare * booking.num_passengers,
     booking_date |-> Now,
     status |-> "active",
     cancelled_date |-> None]

\* main.py:165-191  POST /bookings
create_booking_endpoint(booking) ==
    LET provider_exists ==
            \E i \in 1..Len(bus_data.bus_providers) :
                Lower(bus_data.bus_providers[i].name) = Lower(booking.bus_provider)
        fare == get_fare(booking.to_district, booking.dropping_point)
        data == new_booking_data(booking, fare)
    IN  /\ IF ~ValidBookingCreate(booking)
           THEN /\ response' = Reply("create", 422, <<"validation error">>)
                /\ UNCHANGED bookings
           ELSE IF ~provider_exists
           THEN /\ response' = Reply("create", 400, <<"Bus provider not found">>)
                /\ UNCHANGED bookings
           ELSE IF ~validate_route(booking.bus_provider, booking.from_district,
                                   booking.to_district)
           THEN /\ response' = Reply("create", 400, <<"provider does not operate between">>)
                /\ UNCHANGED bookings
           ELSE IF fare = 0
           THEN /\ response' = Reply("create", 400, <<"Dropping point not found">>)
                /\ UNCHANGED bookings
           ELSE IF UniqueViolation(bookings, data.booking_id)
           THEN /\ response' = Reply("create", 500, <<"IntegrityError">>)
                /\ UNCHANGED bookings
           ELSE /\ response' = Reply("create", 200, data.booking_id)
                /\ bookings' = create_booking(bookings, data)
        /\ chat_inserted' = <<>>
        /\ answer_call' = None
        /\ request_received' = NoQueryRequest
        /\ raised' = "none"
        /\ UNCHANGED <<sessions, deleted_bookings, calls, overlapped>>

\* main.py:211-222  DELETE /bookings/{booking_id}
delete_booking_endpoint(booking_id, permanent) ==
    /\ IF permanent
       THEN IF get_booking_by_id(bookings, booking_id) # <<>>
            THEN /\ deleted_bookings' =
                       Append(deleted_bookings,
                              deleted_row(get_booking_by_id(bookings, booking_id)[1]))
                 /\ bookings' = delete_booking_permanently(bookings, booking_id)
                 /\ response' = Reply("delete", 200,
                                      <<"Booking ">> \o booking_id \o <<" deleted permanently.">>)
            ELSE /\ response' = Reply("delete", 404, <<"Booking not found">>)
                 /\ UNCHANGED <<bookings, deleted_bookings>>
       ELSE /\ bookings' = cancel_booking(bookings, booking_id)
            /\ response' =
                  IF cancel_booking_result(bookings, booking_id)
                  THEN Reply("delete", 200, <<"Booking ">> \o booking_id \o <<" cancelled.">>)
                  ELSE Reply("delete", 404, <<"Booking not found">>)
            /\ UNCHANGED deleted_bookings
    /\ chat_inserted' = <<>>
    /\ answer_call' = None
    /\ request_received' = NoQueryRequest
    /\ raised' = "none"
    /\ UNCHANGED <<sessions, calls, overlapped>>

(***************************************************************************)
(* Inputs.                                                                 *)
(***************************************************************************)
P1 == <<"0", "1", "7", "1", "1", "0", "0", "0", "0", "0", "0">>
P2 == <<"0", "1", "7", "1", "1", "0", "0", "0", "0", "0", "1">>
ShortPhone == <<"0", "1", "7", "1">>

BookingIds == {<<"B", "K">> \o ZeroPad(Digits(n), IdWidth) : n \in 1..MaxBookings}

BookingInputs ==
    [name : {<<"A", "l">>},
     phone : {P1, P2, ShortPhone},
     bus_provider : {Lower(Ena), Hanif},
     from_district : {Dhaka},
     to_district : {Bogra},
     dropping_point : {Satmatha},
     travel_date : {<<"1", "2", "/", "0", "1">>},
     num_passengers : {2}]

Queries ==
    { <<"C", "a", "n", "c", "e", "l">>, <<" ", "h", "i">>, P1, Plus88 \o P1, P2, <<>> }
        \cup BookingIds
        \cup {Lower(b) : b \in {<<"B", "K">> \o ZeroPad(Digits(1), IdWidth)}}
        \cup {SubSeq(b, 1, Len(b) - 1) : b \in {<<"B", "K">> \o ZeroPad(Digits(1), IdWidth)}}

PhoneHints == {None, P1, Plus88 \o P1, <<" ">>}

\* str(uuid.uuid4()): the ids the server can generate
Uuids == {<<"u", DigitChars[i + 1]>> : i \in 1..MaxUuids}

Answers == {<<"answer">>}

Requests ==
    [query : Queries, phone : PhoneHints,
     session_id : {None} \cup DOMAIN sessions]

(***************************************************************************)
(* Specification: serialized calls.                                        *)
(***************************************************************************)
Init ==
    /\ sessions = <<>>
    /\ bookings = <<>>
    /\ deleted_bookings = <<>>
    /\ chat_inserted = <<>>
    /\ answer_call = None
    /\ response = Reply("init", 0, <<>>)
    /\ request_received = NoQueryRequest
    /\ raised = "none"
    /\ calls = [c \in 1..MaxRaceCalls |-> IdleCall]
    /\ overlapped = FALSE

Next ==
    \/ \E request \in Requests, uuid \in Uuids \ DOMAIN sessions, answer \in Answers :
          /\ ~Truthy(request.session_id)
          /\ query_smart(request, uuid, answer)
    \/ \E request \in Requests, answer \in Answers :
          /\ Truthy(request.session_id)
          /\ query_smart(request, None, answer)
    \/ \E booking \in BookingInputs :
          /\ Len(bookings) + Len(deleted_bookings) < MaxBookings
          /\ create_booking_endpoint(booking)
    \/ \E booking_id \in BookingIds, permanent \in BOOLEAN :
          /\ permanent => Len(deleted_bookings) < MaxDeleted
          /\ delete_booking_endpoint(booking_id, permanent)

Spec == Init /\ [][Next]_vars

(***************************************************************************)
(* Specification: serialized calls of several sessions, with session ids   *)
(* generated by the server and session ids chosen by the client.           *)
(***************************************************************************)
\* str(uuid.uuid4()): the ids the server can generate in SpecSessions
SessionUuids == {<<"u", DigitChars[i + 1]>> : i \in 1..MaxSessions}

\* session ids a client makes up
ClientSessionIds == {<<"c", "1">>}

SessionQueries == {<<"C", "a", "n", "c", "e", "l">>, <<" ", "h", "i">>, P1}

SessionRequests ==
    [query : SessionQueries, phone : {None, P1},
     session_id : {None} \cup ClientSessionIds \cup DOMAIN sessions]

SessionBookingInputs == {b \in BookingInputs : b.phone = P1 /\ b.bus_provider = Lower(Ena)}

NextSessions ==
    \/ \E request \in SessionRequests, uuid \in SessionUuids \ DOMAIN sessions,
          answer \in Answers :
          /\ ~Truthy(request.session_id)
          /\ Cardinality(DOMAIN sessions) < MaxSessions
          /\ query_smart(request, uuid, answer)
    \/ \E request \in SessionRequests, answer \in Answers :
          /\ Truthy(request.session_id)
          /\ request.session_id \notin DOMAIN sessions
                => Cardinality(DOMAIN sessions) < MaxSessions
          /\ query_smart(request, None, answer)
    \/ \E booking \in SessionBookingInputs :
          /\ Len(bookings) < MaxBookings
          /\ create_booking_endpoint(booking)

SpecSessions == Init /\ [][NextSessions]_vars

(***************************************************************************)
(* Specification: serialized calls in which a collaborator call (booking   *)
(* store, chat log, answer engine) may raise.                              *)
(***************************************************************************)
FailQueries ==
    {<<"C", "a", "n", "c", "e", "l">>, <<" ", "h", "i">>, P1,
     <<"B", "K">> \o ZeroPad(Digits(1), IdWidth)}

FailRequests ==
    [query : FailQueries, phone : {None, P1}, session_id : {None} \cup DOMAIN sessions]

NextFail ==
    \/ \E request \in FailRequests, uuid \in Uuids \ DOMAIN sessions, answer \in Answers :
          /\ ~Truthy(request.session_id)
          /\ query_smart(request, uuid, answer)
    \/ \E request \in FailRequests, answer \in Answers :
          /\ Truthy(request.session_id)
          /\ query_smart(request, None, answer)
    \/ \E request \in FailRequests, uuid \in Uuids \ DOMAIN sessions :
          /\ ~Truthy(request.session_id)
          /\ \E call \in CollaboratorCalls : query_smart_fails(request, uuid, call)
    \/ \E request \in FailRequests :
          /\ Truthy(request.session_id)
          /\ \E call \in CollaboratorCalls : query_smart_fails(request, None, call)
    \/ \E booking \in SessionBookingInputs :
          /\ Len(bookings) < MaxBookings
          /\ create_booking_endpoint(booking)

SpecFail == Init /\ [][NextFail]_vars

(***************************************************************************)
(* Specification: the booking endpoints alone, called one at a time.       *)
(***************************************************************************)
StoreBookingIds == {<<"B", "K">> \o ZeroPad(Digits(n), IdWidth) : n \in 1..MaxStoreRows}

NextStore ==
    \/ \E booking \in BookingInputs :
          /\ Len(bookings) < MaxStoreRows
          /\ create_booking_endpoint(booking)
    \/ \E booking_id \in StoreBookingIds : delete_booking_endpoint(booking_id, FALSE)
    \/ \E booking_id \in StoreBookingIds :
          /\ Len(deleted_bookings) < MaxStoreDeleted
          /\ delete_booking_endpoint(booking_id, TRUE)

SpecStore == Init /\ [][NextStore]_vars

(***************************************************************************)
(* Specification: calls of query_smart on one session served by separate   *)
(* threads (a def endpoint runs in the thread pool; sessions, main.py:98,  *)
(* has no lock).  A step of a call is one statement that reads or writes   *)
(* the session dict or the booking store; lines 228-240 are one step.      *)
(* calls[c].pc is the line the call executes next; where lines 243-271 and *)
(* 296-322 repeat each other the position has one name for both.           *)
(***************************************************************************)
CallIds == 1..MaxRaceCalls

RaceQueries ==
    {<<"C", "a", "n", "c", "e", "l">>, P1, <<"B", "K">> \o ZeroPad(Digits(1), IdWidth)}

RaceRequests == [query : RaceQueries, phone : {None, P1}, session_id : ClientSessionIds]

InFlight(c) == calls[c].pc \notin {"idle", "done"}
SessionIdOf(c) == calls[c].request.session_id
SessionOf(c) == sessions[SessionIdOf(c)]
QueryTextOf(c) == Strip(calls[c].request.query)

\* the call goes on to its next statement
Continue(c, call) ==
    /\ calls' = [calls EXCEPT ![c] = call]
    /\ UNCHANGED <<deleted_bookings, chat_inserted, answer_call, response,
                   request_received, raised, overlapped>>

\* save_chat_message(session_id, "assistant", ...) and return
Return(c, message, log_phone, answer_query) ==
    /\ calls' = [calls EXCEPT ![c] = DoneCall]
    /\ chat_inserted' = <<chat_row(SessionIdOf(c), "assistant", message, log_phone)>>
    /\ answer_call' = answer_query
    /\ response' = [op |-> "query_smart", status |-> 200,
                    message |-> message, session_id |-> SessionIdOf(c)]
    /\ request_received' = calls[c].request
    /\ raised' = "none"
    /\ UNCHANGED <<deleted_bookings, overlapped>>

WriteSession(c, session) ==
    sessions' = [sessions EXCEPT ![SessionIdOf(c)] = session]

\* main.py:228-240
query_smart_begin(c, request) ==
    LET session_id == request.session_id
    IN  /\ calls[c].pc = "idle"
        /\ sessions' = IF session_id \in DOMAIN sessions THEN sessions
                       ELSE sessions @@ (session_id :> NewSession)
        /\ calls' = [calls EXCEPT ![c] = [IdleCall EXCEPT !.pc = "243", !.request = request]]
        /\ chat_inserted' = <<chat_row(session_id, "user", request.query, request.phone)>>
        /\ request_received' = request
        /\ overlapped' = (overlapped \/ \E d \in CallIds \ {c} :
                                           InFlight(d) /\ SessionIdOf(d) = session_id)
        /\ UNCHANGED <<bookings, deleted_bookings, answer_call, response, raised>>

\* main.py:243-246  if session.get("awaiting_phone_for_cancel")
ReadAwaitingPhone(c) ==
    /\ calls[c].pc = "243"
    /\ IF SessionOf(c).awaiting_phone_for_cancel
       THEN Continue(c, [calls[c] EXCEPT !.pc = "247",
                                         !.phone = StripCountryCode(QueryTextOf(c))])
       ELSE Continue(c, [calls[c] EXCEPT !.pc = "273"])
    /\ UNCHANGED <<sessions, bookings>>

\* main.py:247, 298  session["phone"] = phone
StorePhone(c) ==
    /\ calls[c].pc \in {"247", "298"}
    /\ WriteSession(c, [SessionOf(c) EXCEPT !.phone = calls[c].phone])
    /\ Continue(c, [calls[c] EXCEPT !.pc = IF calls[c].pc = "247" THEN "248" ELSE "fetch"])
    /\ UNCHANGED bookings

\* ClearPhoneFlag leaving the flag as it is
ClearPhoneFlag_Skipped(session) == session

\* main.py:248  session["awaiting_phone_for_cancel"] = False
ClearPhoneFlag(session) == [session EXCEPT !.awaiting_phone_for_cancel = FALSE]

ClearAwaitingPhone(c) ==
    /\ calls[c].pc = "248"
    /\ WriteSession(c, ClearPhoneFlag(SessionOf(c)))
    /\ Continue(c, [calls[c] EXCEPT !.pc = "fetch"])
    /\ UNCHANGED bookings

\* main.py:249-255, 300-306
FetchActive(c) ==
    LET phone == calls[c].phone
        active_bookings == ActiveBookingsOf(phone)
    IN  /\ calls[c].pc = "fetch"
        /\ IF active_bookings = <<>>
           THEN Return(c, MsgNoActive(phone), phone, None)
           ELSE Continue(c, [calls[c] EXCEPT
                               !.active_bookings = active_bookings,
                               !.pc = IF Len(active_bookings) = 1 THEN "cancel" ELSE "flag"])
        /\ UNCHANGED <<sessions, bookings>>

\* main.py:257-262, 308-313
CancelOnly(c) ==
    LET booking_to_cancel == calls[c].active_bookings[1]
    IN  /\ calls[c].pc = "cancel"
        /\ bookings' = cancel_booking(bookings, booking_to_cancel.booking_id)
        /\ Return(c, MsgCancelled(booking_to_cancel.booking_id), calls[c].phone, None)
        /\ UNCHANGED sessions

\* main.py:264, 315  session["awaiting_booking_id"] = True
SetAwaitingBookingId(c) ==
    /\ calls[c].pc = "flag"
    /\ WriteSession(c, [SessionOf(c) EXCEPT !.awaiting_booking_id = TRUE])
    /\ Continue(c, [calls[c] EXCEPT !.pc = "pending"])
    /\ UNCHANGED bookings

\* main.py:265-271, 316-322  session["pending_bookings"] = active_bookings
SetPending(c) ==
    /\ calls[c].pc = "pending"
    /\ WriteSession(c, [SessionOf(c) EXCEPT !.pending_bookings = calls[c].active_bookings])
    /\ Return(c, MsgMultiple(calls[c].active_bookings), calls[c].phone, None)
    /\ UNCHANGED bookings

\* main.py:273  if session["awaiting_booking_id"]
ReadAwaitingBookingId(c) ==
    /\ calls[c].pc = "273"
    /\ Continue(c, [calls[c] EXCEPT
                      !.pc = IF SessionOf(c).awaiting_booking_id THEN "275" ELSE "288"])
    /\ UNCHANGED <<sessions, bookings>>

\* main.py:274-276, 283-286
FindPending(c) ==
    LET booking_id == QueryTextOf(c)
        pending == SessionOf(c).pending_bookings
        hits == {i \in 1..Len(pending) : SameBookingId(pending[i], booking_id)}
    IN  /\ calls[c].pc = "275"
        /\ IF hits # {}
           THEN Continue(c, [calls[c] EXCEPT !.pc = "277"])
           ELSE Return(c, MsgNotFound(booking_id), SessionOf(c).phone, None)
        /\ UNCHANGED <<sessions, bookings>>

\* main.py:277  cancel_booking(booking_id)
CancelChosen(c) ==
    /\ calls[c].pc = "277"
    /\ bookings' = cancel_booking(bookings, QueryTextOf(c))
    /\ Continue(c, [calls[c] EXCEPT !.pc = "278"])
    /\ UNCHANGED sessions

\* main.py:278  session["awaiting_booking_id"] = False
ClearAwaitingBookingId(c) ==
    /\ calls[c].pc = "278"
    /\ WriteSession(c, [SessionOf(c) EXCEPT !.awaiting_booking_id = FALSE])
    /\ Continue(c, [calls[c] EXCEPT !.pc = "279"])
    /\ UNCHANGED bookings

\* main.py:279-282  session["pending_bookings"] = []
ClearPending(c) ==
    /\ calls[c].pc = "279"
    /\ WriteSession(c, [SessionOf(c) EXCEPT !.pending_bookings = <<>>])
    /\ Return(c, MsgCancelled(QueryTextOf(c)), SessionOf(c).phone, None)
    /\ UNCHANGED bookings

\* main.py:288-290, 296-297, 324-327
ReadKeyword(c, answer) ==
    LET request == calls[c].request
        phone0 == Strip(Or(request.phone, Or(SessionOf(c).phone, <<>>)))
    IN  /\ calls[c].pc = "288"
        /\ IF ~HasCancelKeyword(Lower(QueryTextOf(c)))
           THEN Return(c, answer, SessionOf(c).phone, request.query)
           ELSE IF phone0 = <<>>
           THEN Continue(c, [calls[c] EXCEPT !.pc = "291"])
           ELSE Continue(c, [calls[c] EXCEPT !.pc = "298",
                                             !.phone = StripCountryCode(phone0)])
        /\ UNCHANGED <<sessions, bookings>>

\* main.py:291-294  session["awaiting_phone_for_cancel"] = True
SetAwaitingPhone(c) ==
    /\ calls[c].pc = "291"
    /\ WriteSession(c, [SessionOf(c) EXCEPT !.awaiting_phone_for_cancel = TRUE])
    /\ Return(c, MsgAskPhone, None, None)
    /\ UNCHANGED bookings

NextRace ==
    \/ \E booking \in SessionBookingInputs :
          /\ Len(bookings) < MaxBookings
          /\ create_booking_endpoint(booking)
    \/ \E c \in CallIds, request \in RaceRequests :
          /\ \A d \in 1..(c - 1) : calls[d].pc # "idle"
          /\ query_smart_begin(c, request)
    \/ \E c \in CallIds : ReadAwaitingPhone(c)
    \/ \E c \in CallIds : StorePhone(c)
    \/ \E c \in CallIds : ClearAwaitingPhone(c)
    \/ \E c \in CallIds : FetchActive(c)
    \/ \E c \in CallIds : CancelOnly(c)
    \/ \E c \in CallIds : SetAwaitingBookingId(c)
    \/ \E c \in CallIds : SetPending(c)
    \/ \E c \in CallIds : ReadAwaitingBookingId(c)
    \/ \E c \in CallIds : FindPending(c)
    \/ \E c \in CallIds : CancelChosen(c)
    \/ \E c \in CallIds : ClearAwaitingBookingId(c)
    \/ \E c \in CallIds : ClearPending(c)
    \/ \E c \in CallIds, answer \in Answers : ReadKeyword(c, answer)
    \/ \E c \in CallIds : SetAwaitingPhone(c)

SpecRace == Init /\ [][NextRace]_vars

(***************************************************************************)
(* Specification: serialized calls in which bookings are created again     *)
(* after a permanent delete, so that generate_booking_id hands out an id a *)
(* session still holds in pending_bookings.                                *)
(***************************************************************************)
ReuseQueries == {<<"C", "a", "n", "c", "e", "l">>} \cup BookingIds

ReuseRequests ==
    [query : ReuseQueries, phone : {None, P1}, session_id : {None} \cup DOMAIN sessions]

ReuseBookingInputs ==
    {b \in BookingInputs : b.phone \in {P1, P2} /\ b.bus_provider = Lower(Ena)}

NextReuse ==
    \/ \E request \in ReuseRequests, uuid \in Uuids \ DOMAIN sessions, answer \in Answers :
          /\ ~Truthy(request.session_id)
          /\ query_smart(request, uuid, answer)
    \/ \E request \in ReuseRequests, answer \in Answers :
          /\ Truthy(request.session_id)
          /\ query_smart(request, None, answer)
    \/ \E booking \in ReuseBookingInputs :
          /\ Len(bookings) < MaxBookings
          /\ create_booking_endpoint(booking)
    \/ \E booking_id \in BookingIds, permanent \in BOOLEAN :
          /\ permanent => Len(deleted_bookings) < MaxDeleted
          /\ delete_booking_endpoint(booking_id, permanent)

SpecReuse == Init /\ [][NextReuse]_vars

(***************************************************************************)
(* Vocabulary of the properties.  A step is a turn when it is a call of    *)
(* query_smart; the request and the reply of the turn are read from the    *)
(* rows it inserted into chat_history and from its response.               *)
(***************************************************************************)
Idle(s) == ~s.awaiting_phone_for_cancel /\ ~s.awaiting_booking_id
AwaitingPhone(s) == s.awaiting_phone_for_cancel /\ ~s.awaiting_booking_id
AwaitingBookingChoice(s) == s.awaiting_booking_id /\ ~s.awaiting_phone_for_cancel

LastWasTurn == response.op = "query_smart"
LastSid == response.session_id
LastQuery == chat_inserted[1].message
LastHint == chat_inserted[1].phone
LastSession == sessions[LastSid]

IsTurn == response'.op = "query_smart"
TurnSid == response'.session_id
TurnQuery == chat_inserted'[1].message
TurnText == Strip(chat_inserted'[1].message)
TurnHint == chat_inserted'[1].phone
TurnReply == response'.message
Pre == IF TurnSid \in DOMAIN sessions THEN sessions[TurnSid] ELSE NewSession
Post == sessions'[TurnSid]

\* a text with a leading +88 removed
Without88(t) == IF Len(t) >= 3 /\ t[1] = "+" /\ t[2] = "8" /\ t[3] = "8"
                THEN SubSeq(t, 4, Len(t)) ELSE t

KeywordIn(t) == Contains(Lower(t), Cancel)

\* the active rows of a table for a phone, newest first
ActiveRows(rows, phone) ==
    Reverse(SelectSeq(rows, LAMBDA b : b.phone = phone /\ b.status = "active"))

IdsOf(rows) == {rows[i].booking_id : i \in 1..Len(rows)}

\* the table is `rows` with the active booking `id` cancelled and nothing else changed
CancelledExactly(rows, rows2, id) ==
    /\ Len(rows2) = Len(rows)
    /\ \A i \in 1..Len(rows) :
          IF rows[i].booking_id = id
          THEN /\ rows[i].status = "active"
               /\ rows2[i].status = "cancelled"
               /\ [rows2[i] EXCEPT !.status = "active", !.cancelled_date = None] = rows[i]
          ELSE rows2[i] = rows[i]
    /\ \E i \in 1..Len(rows) : rows[i].booking_id = id

\* the phone a turn resolves, when it runs cancel-resolution: in AWAITING_PHONE the
\* query text, in IDLE with a keyword the hint or else the stored phone
TurnResolves ==
    /\ IsTurn
    /\ \/ Pre.awaiting_phone_for_cancel
       \/ Idle(Pre) /\ KeywordIn(TurnText)
                    /\ Strip(Or(TurnHint, Or(Pre.phone, <<>>))) # <<>>
TurnPhone ==
    IF Pre.awaiting_phone_for_cancel THEN Without88(TurnText)
    ELSE Without88(Strip(Or(TurnHint, Or(Pre.phone, <<>>))))

(***************************************************************************)
(* C1.  In every reachable state, no session has both awaiting_booking_id  *)
(* and awaiting_phone_for_cancel true.                                     *)
(***************************************************************************)
C1_FlagsExclusive ==
    \A sid \in DOMAIN sessions :
        ~(sessions[sid].awaiting_booking_id /\ sessions[sid].awaiting_phone_for_cancel)

\* a session that gave its phone in AWAITING_PHONE and now awaits a booking id
C1_Witness ==
    /\ LastWasTurn
    /\ ~KeywordIn(LastQuery)
    /\ LastSession.awaiting_booking_id
    /\ LastSession.phone = Without88(Strip(LastQuery))
    /\ Len(LastSession.pending_bookings) > 1

(***************************************************************************)
(* C2.  The cancellation dialogue, turn by turn.  (a) A turn of an IDLE    *)
(* session with a keyword query, no phone hint and no stored phone ends in *)
(* AWAITING_PHONE with the ask-for-phone reply.  (b) A turn that starts in *)
(* AWAITING_PHONE with a phone that has N > 1 active bookings ends in      *)
(* AWAITING_BOOKING_CHOICE with the N bookings pending and each of their   *)
(* ids in the reply.  (c) The turn that directly follows such a listing    *)
(* and whose query text is one of the listed ids cancels exactly that      *)
(* booking, leaves the other N-1 active, replies with the confirmation and *)
(* ends in IDLE.                                                           *)
(***************************************************************************)
C2_AskStep ==
    (IsTurn /\ Idle(Pre) /\ KeywordIn(TurnText) /\ TurnHint = None /\ Pre.phone = None)
        => AwaitingPhone(Post) /\ TurnReply = MsgAskPhone

C2_ListStep ==
    (IsTurn /\ AwaitingPhone(Pre) /\ Len(ActiveRows(bookings, Without88(TurnText))) > 1)
        => /\ AwaitingBookingChoice(Post)
           /\ IdsOf(Post.pending_bookings) = IdsOf(ActiveRows(bookings, Without88(TurnText)))
           /\ \A id \in IdsOf(ActiveRows(bookings, Without88(TurnText))) :
                 Occurrences(TurnReply, id) >= 1

C2_ChooseStep ==
    (/\ LastWasTurn /\ LastSid \in DOMAIN sessions
     /\ AwaitingBookingChoice(LastSession)
     /\ response.message = MsgMultiple(LastSession.pending_bookings)
     /\ IsTurn /\ TurnSid = LastSid
     /\ TurnText \in IdsOf(LastSession.pending_bookings))
        => /\ CancelledExactly(bookings, bookings', TurnText)
           /\ \A id \in IdsOf(LastSession.pending_bookings) \ {TurnText} :
                 \E i \in 1..Len(bookings') :
                    bookings'[i].booking_id = id /\ bookings'[i].status = "active"
           /\ TurnReply = MsgCancelled(TurnText)
           /\ Idle(Post)

\* C2: every step of every behaviour satisfies the three steps of the dialogue.
C2_Dialogue == [][C2_AskStep /\ C2_ListStep /\ C2_ChooseStep]_vars

\* the end of the dialogue: the chosen booking is cancelled, another booking of the
\* same phone is still active, the session is back in IDLE
C2_Witness ==
    /\ LastWasTurn
    /\ response.message = MsgCancelled(Strip(LastQuery))
    /\ Idle(LastSession)
    /\ LastSession.phone = P1
    /\ \E i, j \in 1..Len(bookings) :
          /\ bookings[i].booking_id = Strip(LastQuery)
          /\ bookings[i].status = "cancelled" /\ bookings[i].phone = P1
          /\ bookings[j].status = "active" /\ bookings[j].phone = P1

(***************************************************************************)
(* C3.  A turn of an IDLE session whose query contains a cancellation      *)
(* keyword, with no phone hint and no stored phone, ends in AWAITING_PHONE *)
(* with the ask-for-phone reply; pending_bookings and every booking of the *)
(* store are as before.                                                    *)
(***************************************************************************)
C3_Step ==
    (/\ IsTurn /\ Idle(Pre) /\ KeywordIn(TurnText)
     /\ ~Truthy(TurnHint) /\ ~Truthy(Pre.phone))
        => /\ AwaitingPhone(Post)
           /\ TurnReply = MsgAskPhone
           /\ Post.pending_bookings = Pre.pending_bookings
           /\ bookings' = bookings

\* C3: a keyword turn of an IDLE session without any phone asks for the phone
\* and changes neither pending_bookings nor the store.
C3_TriggerWithoutPhone == [][C3_Step]_vars

C3_Witness ==
    /\ LastWasTurn
    /\ KeywordIn(LastQuery) /\ LastHint = None
    /\ response.message = MsgAskPhone
    /\ AwaitingPhone(LastSession) /\ LastSession.phone = None
    /\ \E i \in 1..Len(bookings) : bookings[i].status = "active"

(***************************************************************************)
(* C4.  A turn that starts with awaiting_phone_for_cancel set stores the   *)
(* whole query text, with a leading +88 removed, as the session phone (not *)
(* the phone hint) and ends with awaiting_phone_for_cancel false, so in    *)
(* IDLE or AWAITING_BOOKING_CHOICE, also when the text contains a          *)
(* cancellation keyword.                                                   *)
(***************************************************************************)
C4_Step ==
    (IsTurn /\ Pre.awaiting_phone_for_cancel)
        => /\ Post.phone = Without88(TurnText)
           /\ ~Post.awaiting_phone_for_cancel
           /\ Idle(Post) \/ AwaitingBookingChoice(Post)

\* C4: a turn in AWAITING_PHONE stores the query text without +88 and leaves
\* AWAITING_PHONE.
C4_PhoneContinuation == [][C4_Step]_vars

\* the text +88<P1> was given with no hint: P1 is stored and resolved
C4_Witness ==
    /\ LastWasTurn
    /\ LastQuery = Plus88 \o P1 /\ LastHint = None
    /\ LastSession.phone = P1
    /\ Idle(LastSession)
    /\ response.message = MsgNoActive(P1)

(***************************************************************************)
(* C5.  Cancel-resolution of a phone with N > 1 active bookings, from the  *)
(* trigger or from the AWAITING_PHONE continuation: pending_bookings is    *)
(* exactly the N active bookings, the session ends in                      *)
(* AWAITING_BOOKING_CHOICE, no booking is cancelled, and each of the N ids *)
(* occurs exactly once in the reply.                                       *)
(***************************************************************************)
C5_Step ==
    (TurnResolves /\ Len(ActiveRows(bookings, TurnPhone)) > 1)
        => /\ Post.pending_bookings = ActiveRows(bookings, TurnPhone)
           /\ AwaitingBookingChoice(Post)
           /\ bookings' = bookings
           /\ \A id \in IdsOf(ActiveRows(bookings, TurnPhone)) :
                 Occurrences(TurnReply, id) = 1

C6_Step ==
    (TurnResolves /\ Len(ActiveRows(bookings, TurnPhone)) = 1)
        => /\ CancelledExactly(bookings, bookings',
                               ActiveRows(bookings, TurnPhone)[1].booking_id)
           /\ TurnReply = MsgCancelled(ActiveRows(bookings, TurnPhone)[1].booking_id)
           /\ Idle(Post)
           /\ Post.pending_bookings = <<>>

\* C6: resolving a phone with one active booking cancels exactly that booking.
C6_OneActive == [][C6_Step]_vars

\* the only active booking of P1 was cancelled after the phone was typed in;
\* a booking of another phone is still active
C6_Witness ==
    /\ LastWasTurn
    /\ Without88(Strip(LastQuery)) = P1
    /\ Idle(LastSession) /\ LastSession.pending_bookings = <<>>
    /\ \E i, j \in 1..Len(bookings) :
          /\ bookings[i].phone = P1 /\ bookings[i].status = "cancelled"
          /\ response.message = MsgCancelled(bookings[i].booking_id)
          /\ bookings[j].phone = P2 /\ bookings[j].status = "active"

(***************************************************************************)
(* C7.  Cancel-resolution of a phone with no active booking (no booking,   *)
(* or cancelled ones only), from either entry path: the reply is the       *)
(* no-active-bookings message, the session ends in IDLE, no booking        *)
(* changes.                                                                *)
(***************************************************************************)
C7_Step ==
    (TurnResolves /\ ActiveRows(bookings, TurnPhone) = <<>>)
        => /\ TurnReply = MsgNoActive(TurnPhone)
           /\ Idle(Post)
           /\ bookings' = bookings

\* C7: resolving a phone with no active booking changes nothing and says so.
C7_NoneActive == [][C7_Step]_vars

\* the trigger resolved a phone whose only booking is cancelled
C7_Witness ==
    /\ LastWasTurn
    /\ KeywordIn(LastQuery)
    /\ response.message = MsgNoActive(P1)
    /\ Idle(LastSession)
    /\ \E i \in 1..Len(bookings) : bookings[i].phone = P1
    /\ \A i \in 1..Len(bookings) : bookings[i].phone = P1 => bookings[i].status = "cancelled"

(***************************************************************************)
(* C8.  A turn that starts in AWAITING_BOOKING_CHOICE with a query text    *)
(* equal to the id of a booking in pending_bookings: after the turn that   *)
(* booking is in the store with status cancelled, pending_bookings is      *)
(* empty, the session is in IDLE and the reply is the confirmation naming  *)
(* the id.                                                                 *)
(***************************************************************************)
C8_Chosen ==
    IsTurn /\ AwaitingBookingChoice(Pre) /\ TurnText \in IdsOf(Pre.pending_bookings)

\* C8 as claimed: the chosen booking is stored as cancelled after the turn.
C8_Original ==
    [][C8_Chosen
        => /\ \E i \in 1..Len(bookings') :
                 bookings'[i].booking_id = TurnText /\ bookings'[i].status = "cancelled"
           /\ Post.pending_bookings = <<>>
           /\ Idle(Post)
           /\ TurnReply = MsgCancelled(TurnText)]_vars

\* What the code does guarantee on the turn of C8: after it no booking with the
\* chosen id is active (the listed booking is cancelled, or is absent because it
\* was deleted permanently since it was listed) and no other booking has changed.
C8_Amended ==
    [][C8_Chosen
        => /\ \A i \in 1..Len(bookings') :
                 bookings'[i].booking_id = TurnText => bookings'[i].status = "cancelled"
           /\ \A i \in 1..Len(bookings) :
                 bookings[i].booking_id # TurnText => bookings'[i] = bookings[i]
           /\ Len(bookings') = Len(bookings)
           /\ Post.pending_bookings = <<>>
           /\ Idle(Post)
           /\ TurnReply = MsgCancelled(TurnText)]_vars

\* the chosen booking, active until this turn, is now cancelled
C8_Witness ==
    /\ LastWasTurn
    /\ response.message = MsgCancelled(Strip(LastQuery))
    /\ Idle(LastSession) /\ LastSession.pending_bookings = <<>>
    /\ \E i \in 1..Len(bookings) :
          /\ bookings[i].booking_id = Strip(LastQuery)
          /\ bookings[i].status = "cancelled"
          /\ bookings[i].phone = LastSession.phone
    /\ \E j \in 1..Len(bookings) :
          bookings[j].status = "active" /\ bookings[j].phone = LastSession.phone

(***************************************************************************)
(* C9.  A turn that starts in AWAITING_BOOKING_CHOICE with a query text    *)
(* that is not the id of a booking in pending_bookings (a prefix of one,   *)
(* one in another case, the id of a booking that is not listed): the       *)
(* session (flags, pending_bookings, phone) and every booking are as       *)
(* before, and the reply is the not-found message.                         *)
(***************************************************************************)
C9_Step ==
    (IsTurn /\ AwaitingBookingChoice(Pre) /\ TurnText \notin IdsOf(Pre.pending_bookings))
        => /\ Post = Pre
           /\ bookings' = bookings
           /\ TurnReply = MsgNotFound(TurnText)

C10_Step ==
    IsTurn =>
        /\ (answer_call' # None) <=> (Idle(Pre) /\ ~KeywordIn(TurnText))
        /\ (answer_call' # None) =>
              /\ answer_call' = TurnQuery
              /\ TurnReply \in Answers
              /\ Post = Pre
              /\ bookings' = bookings
        /\ (~Idle(Pre) /\ KeywordIn(TurnText)) =>
              /\ TurnReply # MsgAskPhone
              /\ Pre.awaiting_phone_for_cancel => Post.phone = Without88(TurnText)
              /\ AwaitingBookingChoice(Pre) => Post = Pre

\* C10: get_answer is reached exactly from IDLE without a keyword; the two
\* waiting states take precedence over the keyword trigger.
C10_FirstMatchWins == [][C10_Step]_vars

\* a free-text query of an IDLE session with a stored phone went to get_answer
C10_Witness ==
    /\ LastWasTurn
    /\ answer_call = LastQuery
    /\ Strip(LastQuery) # LastQuery
    /\ response.message \in Answers
    /\ Idle(LastSession) /\ LastSession.phone = P1

(***************************************************************************)
(* C11.  In the trigger branch (a turn of an IDLE session whose query      *)
(* holds a cancellation keyword) the effective phone is the phone hint     *)
(* when one is given, else the stored phone, else empty; when it is not    *)
(* empty it is stored on the session with a leading +88 removed,           *)
(* overwriting an older stored phone, and cancel-resolution runs for it.   *)
(***************************************************************************)
C11_Trigger == IsTurn /\ Idle(Pre) /\ KeywordIn(TurnText)

\* the reply of cancel-resolution for a phone over a table
ResolutionReply(rows, phone) ==
    IF ActiveRows(rows, phone) = <<>> THEN MsgNoActive(phone)
    ELSE IF Len(ActiveRows(rows, phone)) = 1
    THEN MsgCancelled(ActiveRows(rows, phone)[1].booking_id)
    ELSE MsgMultiple(ActiveRows(rows, phone))

\* hint, else stored phone, else empty
HintElseStored == Or(request_received'.phone, Or(Pre.phone, <<>>))

C11_Step ==
    C11_Trigger =>
        IF Strip(HintElseStored) # <<>>
        THEN /\ Post.phone = Without88(Strip(HintElseStored))
             /\ TurnReply = ResolutionReply(bookings, Without88(Strip(HintElseStored)))
             /\ ~Post.awaiting_phone_for_cancel
        ELSE /\ Post.phone = Pre.phone
             /\ TurnReply = MsgAskPhone
             /\ AwaitingPhone(Post)

C12_Resolved ==
    /\ LastWasTurn
    /\ \/ response.message = MsgNoActive(LastSession.phone)
       \/ \E i \in 1..Len(bookings) :
             /\ bookings[i].phone = LastSession.phone
             /\ response.message = MsgCancelled(bookings[i].booking_id)
             /\ Strip(LastQuery) # bookings[i].booking_id

C12_Step ==
    (C12_Resolved /\ TurnResolves /\ TurnPhone = LastSession.phone)
        => /\ TurnReply = MsgNoActive(TurnPhone)
           /\ Idle(Post)
           /\ bookings' = bookings

\* C12: a resolution directly after one that left the phone without active
\* bookings says no active bookings, ends in IDLE and changes no booking.
C12_Idempotent == [][C12_Step]_vars

\* the stored phone P1 was resolved again without a hint after its only booking
\* had been cancelled: nothing is active, the reply says so
C12_Witness ==
    /\ LastWasTurn
    /\ KeywordIn(LastQuery) /\ request_received.phone = None
    /\ request_received.session_id # None
    /\ LastSession.phone = P1 /\ Idle(LastSession)
    /\ response.message = MsgNoActive(P1)
    /\ \E i \in 1..Len(bookings) :
          bookings[i].phone = P1 /\ bookings[i].cancelled_date = Now
    /\ \A i \in 1..Len(bookings) : bookings[i].phone = P1 => ~IsActive(bookings[i])

(***************************************************************************)
(* C13.  Phone normalization.  In every reachable state, for every session *)
(* and every phone p, the phone +88p and the phone p lead to the same      *)
(* outcome (stored phone, bookings resolved, booking cancelled, reply)     *)
(* when given as the query text in AWAITING_PHONE, when given as the phone *)
(* hint of a trigger turn and when found as the stored phone by a trigger  *)
(* turn; the frontend's normalize_phone maps both to the same text.        *)
(***************************************************************************)
PlainPhones == {P1, P2}

C13_SameOutcome ==
    \A session \in {NewSession} \cup {sessions[sid] : sid \in DOMAIN sessions},
       p \in PlainPhones :
        /\ PhoneBranch(session, Plus88 \o p) = PhoneBranch(session, p)
        /\ PhoneBranch(session, p).session.phone = p
        /\ CancelBranch(session, Plus88 \o p) = CancelBranch(session, p)
        /\ CancelBranch(session, p).session.phone = p
        /\ CancelBranch([session EXCEPT !.phone = Plus88 \o p], None)
              = CancelBranch([session EXCEPT !.phone = p], None)
        /\ normalize_phone(Plus88 \o p) = normalize_phone(p)
        /\ normalize_phone(p) = p

\* the text +88<P1> given in AWAITING_PHONE listed the two active bookings of P1
C13_Witness ==
    /\ LastWasTurn
    /\ request_received.query = Plus88 \o P1 /\ request_received.phone = None
    /\ LastSession.phone = P1
    /\ AwaitingBookingChoice(LastSession)
    /\ Len(LastSession.pending_bookings) = 2
    /\ \A i \in 1..2 : LastSession.pending_bookings[i].phone = P1

(***************************************************************************)
(* C14.  Every call of query_smart adds to chat_history exactly one user   *)
(* row holding the raw query of the request, followed by exactly one       *)
(* assistant row holding the reply it returns, both under the session id   *)
(* it returns; no other call adds a row.  chat_history is the              *)
(* concatenation of chat_inserted over the calls, so the rows of a session *)
(* alternate user, assistant.                                              *)
(***************************************************************************)
C14_Step ==
    IF IsTurn
    THEN /\ Len(chat_inserted') = 2
         /\ chat_inserted'[1].role = "user"
         /\ chat_inserted'[1].message = request_received'.query
         /\ chat_inserted'[1].session_id = response'.session_id
         /\ chat_inserted'[2].role = "assistant"
         /\ chat_inserted'[2].message = response'.message
         /\ chat_inserted'[2].session_id = response'.session_id
    ELSE chat_inserted' = <<>>

C15_Initial ==
    [awaiting_booking_id |-> FALSE, awaiting_phone_for_cancel |-> FALSE,
     pending_bookings |-> <<>>, phone |-> None]

C15_Before == IF TurnSid \in DOMAIN sessions THEN sessions[TurnSid] ELSE C15_Initial

C15_Step ==
    IsTurn =>
        /\ IF Truthy(request_received'.session_id)
           THEN TurnSid = request_received'.session_id
           ELSE TurnSid \notin DOMAIN sessions
        /\ DOMAIN sessions' = DOMAIN sessions \cup {TurnSid}
        /\ \A sid \in DOMAIN sessions \ {TurnSid} : sessions'[sid] = sessions[sid]
        /\ \E answer \in Answers :
              LET out == Route(C15_Before, request_received'.query,
                               request_received'.phone, answer)
              IN  Post = out.session /\ TurnReply = out.message
        /\ (TurnSid \notin DOMAIN sessions /\ ~KeywordIn(TurnText)) => Post = C15_Initial

\* C15: the session id returned is the one supplied or a fresh one; only that
\* session is read and written; a new session starts in IDLE without phone.
C15_SessionIdentity == [][C15_Step]_vars

\* a turn under a session id made up by the client, while a session with a
\* generated id waits for a booking id
C15_Witness ==
    /\ LastWasTurn
    /\ request_received.session_id \in ClientSessionIds
    /\ LastSid = request_received.session_id
    /\ LastSession.phone = None
    /\ \E sid \in DOMAIN sessions \cap SessionUuids :
          /\ sessions[sid].awaiting_booking_id
          /\ sessions[sid].phone = P1

(***************************************************************************)
(* Vocabulary of the store properties.                                     *)
(***************************************************************************)
ActiveIn(rows, id) ==
    \E i \in 1..Len(rows) : rows[i].booking_id = id /\ rows[i].status = "active"

CancelledIn(rows, id) ==
    \E i \in 1..Len(rows) : rows[i].booking_id = id /\ rows[i].status = "cancelled"

\* the ids the store has archived, and those it archived as cancelled
ArchivedIds == {deleted_bookings[i].booking_id : i \in 1..Len(deleted_bookings)}
ArchivedCancelledIds ==
    {deleted_bookings[i].booking_id :
        i \in {j \in 1..Len(deleted_bookings) :
                  deleted_bookings[j].booking_data.status = "cancelled"}}

\* the number a booking id spells
IdNumber(id) ==
    CHOOSE n \in 1..(MaxStoreRows + MaxStoreDeleted + 1) :
        <<"B", "K">> \o ZeroPad(Digits(n), IdWidth) = id

Created == response'.op = "create" /\ response'.status = 200
CancelAnswered(id) ==
    response'.op = "delete"
        /\ response'.message = <<"Booking ">> \o id \o <<" cancelled.">>
DeleteAnswered(id) ==
    response'.op = "delete"
        /\ response'.message = <<"Booking ">> \o id \o <<" deleted permanently.">>
NotFoundAnswered == response'.op = "delete" /\ response'.status = 404

(***************************************************************************)
(* C16.  A booking status only moves from active to cancelled: a booking   *)
(* id that is stored as cancelled, or was archived as cancelled when it    *)
(* was deleted, is not active after any step, and a step changes the       *)
(* status stored under an id only from active to cancelled.                *)
(***************************************************************************)
C16_Step ==
    \A id \in StoreBookingIds :
        /\ (CancelledIn(bookings, id) \/ id \in ArchivedCancelledIds)
              => ~ActiveIn(bookings', id)
        /\ (ActiveIn(bookings, id) /\ ~ActiveIn(bookings', id))
              => (CancelledIn(bookings', id) \/ id \notin IdsOf(bookings'))

\* C16 as claimed: a booking id once cancelled is never active again.
C16_Original == [][C16_Step]_vars

(***************************************************************************)
(* C17.  Every booking that is created gets an id that no stored or        *)
(* archived booking has and that is greater than all of their ids, and no  *)
(* creation ends in the integrity error of a repeated id.                  *)
(***************************************************************************)
C17_Step ==
    /\ Created =>
          /\ response'.message \notin IdsOf(bookings) \cup ArchivedIds
          /\ \A id \in IdsOf(bookings) \cup ArchivedIds :
                IdNumber(response'.message) > IdNumber(id)
    /\ response'.op = "create" => response'.status # 500

\* C17 as claimed: ids are unique and increasing, creation never collides.
C17_Original == [][C17_Step]_vars

(***************************************************************************)
(* C18.  cancel_booking returns true exactly when a row with the id is     *)
(* stored as active; then that row alone changes: its status becomes       *)
(* cancelled and it gets a cancellation timestamp.  Otherwise the table is *)
(* unchanged.  The cancel endpoint answers accordingly.                    *)
(***************************************************************************)
C18_Function ==
    \A id \in StoreBookingIds :
        /\ cancel_booking_result(bookings, id) <=> ActiveIn(bookings, id)
        /\ IF ActiveIn(bookings, id)
           THEN /\ CancelledExactly(bookings, cancel_booking(bookings, id), id)
                /\ \A i \in 1..Len(bookings) :
                      bookings[i].booking_id = id
                          => cancel_booking(bookings, id)[i].cancelled_date = Now
           ELSE cancel_booking(bookings, id) = bookings

C18_Step ==
    /\ C18_Function
    /\ \A id \in StoreBookingIds :
          /\ CancelAnswered(id) => ActiveIn(bookings, id) /\ bookings' = cancel_booking(bookings, id)
          /\ (response'.op = "delete" /\ ActiveIn(bookings, id) /\ CancelledIn(bookings', id))
                => CancelAnswered(id)
    /\ NotFoundAnswered => bookings' = bookings /\ deleted_bookings' = deleted_bookings

\* C18: cancel_booking is true iff an active row with the id was cancelled.
C18_CancelResult == [][C18_Step]_vars

\* the cancel endpoint was refused for a booking that is already cancelled
C18_Witness ==
    /\ response.op = "delete" /\ response.status = 404
    /\ deleted_bookings = <<>>
    /\ Len(bookings) = 2
    /\ bookings[1].status = "cancelled" /\ bookings[1].cancelled_date = Now
    /\ bookings[2].status = "active" /\ bookings[2].cancelled_date = None

(***************************************************************************)
(* C19.  Permanent deletion archives before removing.  A step removes rows *)
(* from bookings only as the permanent deletion of one stored id, active   *)
(* or cancelled: that row is removed, deleted_bookings gains exactly one   *)
(* row whose data is the removed row as it was, and the answer is the      *)
(* success message.  A deletion of an unknown id answers not found and     *)
(* changes neither table.  In no step does one table change without the    *)
(* other.                                                                  *)
(***************************************************************************)
C19_Archived(id) ==
    \E i \in 1..Len(bookings) :
        /\ bookings[i].booking_id = id
        /\ bookings' = SelectSeq(bookings, LAMBDA b : b.booking_id # id)
        /\ Len(bookings') = Len(bookings) - 1
        /\ Len(deleted_bookings') = Len(deleted_bookings) + 1
        /\ SubSeq(deleted_bookings', 1, Len(deleted_bookings)) = deleted_bookings
        /\ deleted_bookings'[Len(deleted_bookings')].booking_id = id
        /\ deleted_bookings'[Len(deleted_bookings')].booking_data = bookings[i]

C19_Step ==
    /\ \A id \in StoreBookingIds : DeleteAnswered(id) => C19_Archived(id)
    /\ (IdsOf(bookings) \ IdsOf(bookings') # {} \/ deleted_bookings' # deleted_bookings)
          => \E id \in IdsOf(bookings) : DeleteAnswered(id) /\ C19_Archived(id)
    /\ NotFoundAnswered => bookings' = bookings /\ deleted_bookings' = deleted_bookings

\* C19: a record leaves bookings only together with its verbatim archive row.
C19_ArchiveBeforeRemove == [][C19_Step]_vars

\* a cancelled booking was deleted after an active one: both are archived as
\* they were, a third booking is still stored
C19_Witness ==
    /\ response.op = "delete" /\ response.status = 200
    /\ Len(deleted_bookings) = 2
    /\ deleted_bookings[1].booking_data.status = "active"
    /\ deleted_bookings[2].booking_data.status = "cancelled"
    /\ deleted_bookings[2].booking_data.cancelled_date = Now
    /\ response.message
          = <<"Booking ">> \o deleted_bookings[2].booking_id \o <<" deleted permanently.">>
    /\ deleted_bookings[2].booking_id \notin IdsOf(bookings)
    /\ Len(bookings) = 1

(***************************************************************************)
(* C20.  A call of query_smart during which a collaborator call raises     *)
(* ends in a failure: the response is the server error, it carries no      *)
(* reply text, no assistant row is logged for the turn, and nothing that   *)
(* follows the raising call in the handler has happened (no second         *)
(* attempt): the user row is logged at most once, and a raising store read *)
(* or cancellation leaves the bookings as they were.                       *)
(***************************************************************************)
C20_Step ==
    /\ raised' # "none" =>
          /\ response'.op = "query_smart"
          /\ response'.status = 500
          /\ response'.message = None
          /\ \A i \in 1..Len(chat_inserted') : chat_inserted'[i].role = "user"
          /\ Len(chat_inserted') <= 1
          /\ raised' = "save_chat_message user" =>
                chat_inserted' = <<>> /\ bookings' = bookings /\ answer_call' = None
          /\ raised' \in {"get_bookings_by_phone", "cancel_booking", "get_answer"} =>
                bookings' = bookings
          /\ raised' # "get_answer" /\ raised' # "save_chat_message assistant" =>
                answer_call' = None
    /\ (response'.op = "query_smart" /\ response'.status = 200) =>
          /\ raised' = "none"
          /\ Len(chat_inserted') = 2
          /\ chat_inserted'[2].message = response'.message

\* C20: a raising collaborator call ends the call in a failure without reply.
C20_FailurePropagates == [][C20_Step]_vars

\* get_answer raised: the user row is logged, the caller got the server error
C20_Witness ==
    /\ raised = "get_answer"
    /\ response.status = 500 /\ response.message = None
    /\ Len(chat_inserted) = 1 /\ chat_inserted[1].role = "user"
    /\ answer_call = request_received.query
    /\ \E sid \in DOMAIN sessions : sessions[sid].phone = P1

(***************************************************************************)
(* C21.  User input issues keep the dialogue resumable.  (a) A turn in     *)
(* AWAITING_PHONE whose text is no phone (empty, or garbled) answers that  *)
(* no active bookings were found for that text, changes no booking and     *)
(* ends in IDLE with no pending bookings.  (b) A turn in                   *)
(* AWAITING_BOOKING_CHOICE whose text is no listed id answers not found    *)
(* and leaves session and bookings as they were.  (c) The session can      *)
(* still cancel: from IDLE, whatever text is stored as its phone, a        *)
(* keyword turn with the phone as hint resolves that phone, and with an    *)
(* empty stored phone and no hint it asks for the phone again; from        *)
(* AWAITING_BOOKING_CHOICE a listed id that is still active is cancelled.  *)
(***************************************************************************)
\* flags and pending_bookings fit together
Consistent(s) ==
    /\ ~(s.awaiting_booking_id /\ s.awaiting_phone_for_cancel)
    /\ s.awaiting_booking_id <=> s.pending_bookings # <<>>

NoPhone(t) == t \notin PlainPhones

C21_Step ==
    IsTurn =>
        /\ (Pre.awaiting_phone_for_cancel /\ NoPhone(Without88(TurnText)))
              => /\ TurnReply = MsgNoActive(Without88(TurnText))
                 /\ Idle(Post) /\ Post.pending_bookings = <<>>
                 /\ Consistent(Post)
                 /\ bookings' = bookings
        /\ (AwaitingBookingChoice(Pre) /\ TurnText \notin IdsOf(Pre.pending_bookings))
              => /\ TurnReply = MsgNotFound(TurnText)
                 /\ Post = Pre /\ Consistent(Post)
                 /\ bookings' = bookings
        /\ (Idle(Pre) /\ KeywordIn(TurnText) /\ TurnHint \in PlainPhones)
              => /\ Post.phone = TurnHint
                 /\ TurnReply = ResolutionReply(bookings, TurnHint)
                 /\ Len(ActiveRows(bookings, TurnHint)) = 1
                       => CancelledExactly(bookings, bookings',
                                           ActiveRows(bookings, TurnHint)[1].booking_id)
                 /\ Consistent(Post)
        /\ (Idle(Pre) /\ KeywordIn(TurnText) /\ ~Truthy(TurnHint) /\ Pre.phone = <<>>)
              => AwaitingPhone(Post) /\ TurnReply = MsgAskPhone
        /\ (AwaitingBookingChoice(Pre) /\ TurnText \in IdsOf(Pre.pending_bookings)
                /\ ActiveIn(bookings, TurnText))
              => /\ CancelledExactly(bookings, bookings', TurnText)
                 /\ TurnReply = MsgCancelled(TurnText)
                 /\ Idle(Post) /\ Consistent(Post)

\* C21: a text that is no phone, or no listed id, is answered without damage to
\* the session, and the session can still cancel afterwards.
C21_Resumable == [][C21_Step]_vars

\* the text hi was taken as the phone: nothing found, the session is in IDLE
\* with that text stored, a booking of P1 is still active
C21_Witness ==
    /\ LastWasTurn
    /\ LastSession.phone = <<"h", "i">>
    /\ response.message = MsgNoActive(<<"h", "i">>)
    /\ Idle(LastSession) /\ LastSession.pending_bookings = <<>>
    /\ ActiveRows(bookings, P1) # <<>>

(***************************************************************************)
(* C22.  Calls on one session that overlap can leave the session in states *)
(* that calls served one after the other never produce: both flags true at *)
(* once, or a call that has read awaiting_booking_id as true finding       *)
(* pending_bookings still empty, so that the id of a booking about to be   *)
(* listed is answered not found.  Such a state is reached, and it is       *)
(* reached only when two calls on the session have been in flight at once. *)
(***************************************************************************)
BothFlags(s) == s.awaiting_booking_id /\ s.awaiting_phone_for_cancel

\* a call past line 273 is about to search pending_bookings and it is empty
EmptyPendingRead ==
    \E c \in CallIds : calls[c].pc = "275" /\ SessionOf(c).pending_bookings = <<>>

\* C22: both flags true, or a search of an empty pending_bookings, happens only
\* after two calls on the session have overlapped.
C22_RaceOnly ==
    (EmptyPendingRead \/ \E sid \in DOMAIN sessions : BothFlags(sessions[sid]))
        => overlapped

\* both calls have returned and left both flags true
C22_Witness ==
    /\ \A c \in CallIds : calls[c].pc = "done"
    /\ \E sid \in DOMAIN sessions : BothFlags(sessions[sid])

\* the id of an active booking was answered not found while the call that is
\* about to list it has set awaiting_booking_id and not yet pending_bookings
C22_NotFoundForListed ==
    /\ response.message = MsgNotFound(<<"B", "K">> \o ZeroPad(Digits(1), IdWidth))
    /\ \E c \in CallIds :
          /\ calls[c].pc = "pending"
          /\ SessionOf(c).awaiting_booking_id
          /\ SessionOf(c).pending_bookings = <<>>
          /\ \E i \in 1..Len(calls[c].active_bookings) :
                /\ calls[c].active_bookings[i].booking_id
                      = <<"B", "K">> \o ZeroPad(Digits(1), IdWidth)
                /\ ActiveIn(bookings, calls[c].active_bookings[i].booking_id)

(***************************************************************************)
(* C23.  After any sequence of calls served one at a time, in every        *)
(* session pending_bookings is non-empty exactly when awaiting_booking_id  *)
(* is true, and a non-empty pending_bookings holds at least two bookings,  *)
(* with pairwise distinct ids, all of the phone stored in the session.     *)
(***************************************************************************)
PendingWellFormed(s) ==
    /\ s.pending_bookings # <<>> <=> s.awaiting_booking_id
    /\ s.pending_bookings # <<>> =>
          /\ Len(s.pending_bookings) >= 2
          /\ \A i, j \in 1..Len(s.pending_bookings) :
                i # j => s.pending_bookings[i].booking_id # s.pending_bookings[j].booking_id
          /\ \A i \in 1..Len(s.pending_bookings) : s.pending_bookings[i].phone = s.phone

\* C23: pending_bookings is non-empty iff awaiting_booking_id, and then it holds
\* two or more bookings with distinct ids, all of the session's stored phone.
C23_PendingInvariant ==
    \A sid \in DOMAIN sessions : PendingWellFormed(sessions[sid])

\* a session that has listed two bookings of P1 and awaits the choice
C23_Witness ==
    \E sid \in DOMAIN sessions :
        /\ sessions[sid].awaiting_booking_id
        /\ Len(sessions[sid].pending_bookings) = 2
        /\ sessions[sid].phone = P1

(***************************************************************************)
(* C24.  A reply confirming the cancellation of booking X is given only in *)
(* a turn in which booking X changed from active to cancelled in table     *)
(* bookings.                                                               *)
(***************************************************************************)
C24_Step ==
    IsTurn =>
        \A id \in BookingIds :
            TurnReply = MsgCancelled(id)
                => ActiveIn(bookings, id) /\ CancelledIn(bookings', id)

\* C24: a confirmation naming X is returned only when X went from active to
\* cancelled in that turn.
C24_Original == [][C24_Step]_vars

(***************************************************************************)
(* C25.  One call of query_smart changes the status of at most one         *)
(* booking, and only of a booking whose phone is the phone stored in the   *)
(* session when the call ends.                                             *)
(***************************************************************************)
\* the rows of table bookings whose status the step changes
StatusChanged ==
    {i \in 1..Len(bookings) : i <= Len(bookings') /\ bookings'[i].status # bookings[i].status}

C25_Step ==
    IsTurn =>
        /\ Len(bookings') = Len(bookings)
        /\ Cardinality(StatusChanged) <= 1
        /\ \A i \in StatusChanged : bookings[i].phone = Post.phone

\* C25: a call changes the status of at most one booking, and that booking has
\* the phone stored in the session at the end of the call.
C25_Original == [][C25_Step]_vars

\* a session that resolved P1 has been told that a booking is cancelled, and the
\* booking of that id now cancelled in the store is one of P2
C25_OtherPhoneCancelled ==
    /\ LastWasTurn
    /\ LastSession.phone = P1
    /\ \E i \in 1..Len(bookings) :
          /\ response.message = MsgCancelled(bookings[i].booking_id)
          /\ bookings[i].status = "cancelled"
          /\ bookings[i].phone = P2

(***************************************************************************)
(* C26.  The stored phone is sticky.  Once the phone stored in a session   *)
(* is non-empty, no step makes it null or empty again, and a turn in IDLE  *)
(* whose text holds a cancellation keyword does not set                    *)
(* awaiting_phone_for_cancel, whatever phone hint comes with it.           *)
(***************************************************************************)
C26_Step ==
    /\ \A sid \in DOMAIN sessions :
          Truthy(sessions[sid].phone) => Truthy(sessions'[sid].phone)
    /\ (IsTurn /\ Idle(Pre) /\ Truthy(Pre.phone) /\ KeywordIn(TurnText))
          => ~Post.awaiting_phone_for_cancel

\* C26: a non-empty stored phone never becomes null or empty, and with it a
\* keyword turn in IDLE never leads to AWAITING_PHONE.
C26_Original == [][C26_Step]_vars

\* a session asks for the phone although it has a phone stored
C26_AskedDespiteStoredPhone ==
    /\ LastWasTurn
    /\ response.message = MsgAskPhone
    /\ AwaitingPhone(LastSession)
    /\ Truthy(LastSession.phone)

\* the second half of the failure: the stored phone of a session is erased
C26_Erased ==
    [][\A sid \in DOMAIN sessions :
          Truthy(sessions[sid].phone) => Truthy(sessions'[sid].phone)]_vars

====
